---------------------------- MODULE Spec2Model ----------------------------
(***************************************************************************)
(* Graph-ADT: Graph / Vertex (src/graphs/graph.py), WeightedGraph /        *)
(* WeightedVertex (src/graphs/weighted_graph.py).                          *)
(*                                                                         *)
(* A graph object is a record                                              *)
(*   cls          "Graph" or "WeightedGraph"                               *)
(*   is_directed  the flag given to __init__                               *)
(*   vertex_dict  the dict id -> Vertex object, in insertion order         *)
(*   objs         the Vertex objects ever created; a reference to an       *)
(*                object is its index in objs                              *)
(* A Python dict is a sequence of <<key, value>> pairs in insertion order. *)
(* A Vertex object is [id, neighbors_dict]; neighbors_dict maps an id to   *)
(* <<object reference, weight>> (Vertex stores the reference alone: the    *)
(* weight of an unweighted entry is always 1 and never read).              *)
(***************************************************************************)
EXTENDS Integers, Sequences, FiniteSets, TLC

\* ---------------------------------------------------------------- bounds
\* calls explored on one graph object, construction calls and algorithm calls
MaxOps == 5
\* ids the explored construction calls draw from: the first MaxIds of AllIds
MaxIds == 3
\* edge weights of the explored construction calls: 1..MaxWeight
MaxWeight == 2

\* float('inf'): larger than every finite sum the model can form
Inf == 1000000

AllIds == <<"A", "B", "C", "D", "E", "F", "G", "H", "J">>

\* Python's order on the ids (str.__lt__ on one-letter strings)
IdOrd(id) == CHOOSE i \in 1..Len(AllIds) : AllIds[i] = id

Ids == {AllIds[i] : i \in 1..MaxIds}

Weights == 1..MaxWeight

\* the weights add_edge is called with: add_edge accepts any number
MaxNegative == 1

EdgeWeights == (0 - MaxNegative)..MaxWeight

\* ------------------------------------------------------- Python builtins
\* set(seq)
Range(s) == {s[i] : i \in 1..Len(s)}

\* list(d.keys())
Keys(d) == [i \in 1..Len(d) |-> d[i][1]]

\* list(d.values())
Values(d) == [i \in 1..Len(d) |-> d[i][2]]

\* k in d
Has(d, k) == \E i \in 1..Len(d) : d[i][1] = k

\* d[k], for k in d
Get(d, k) == d[CHOOSE i \in 1..Len(d) : d[i][1] = k][2]

\* d[k] = v: a present key keeps its position, a new key goes last
Put(d, k, v) ==
    IF Has(d, k)
    THEN [i \in 1..Len(d) |-> IF d[i][1] = k THEN <<k, v>> ELSE d[i]]
    ELSE Append(d, <<k, v>>)

\* del d[k], for k in d
Del(d, k) == SelectSeq(d, LAMBDA e : e[1] # k)

\* x in a list
InSeq(x, s) == \E i \in 1..Len(s) : s[i] = x

\* list.remove(x), for x in the list: drops the first occurrence
Remove(s, x) ==
    LET i == CHOOSE j \in 1..Len(s) : s[j] = x /\ \A m \in 1..(j - 1) : s[m] # x
    IN  SubSeq(s, 1, i - 1) \o SubSeq(s, i + 1, Len(s))

\* a + b on floats that may be inf
Plus(a, b) == IF a = Inf \/ b = Inf THEN Inf ELSE a + b

\* the outcome of a call: it returns a value, returns None, raises, or never
\* returns
Return(v) == [raised |-> "", is_none |-> FALSE, value |-> v]

ReturnNone == [raised |-> "", is_none |-> TRUE, value |-> <<>>]

Raise(e) == [raised |-> e, is_none |-> FALSE, value |-> <<>>]

Diverges == [raised |-> "<never returns>", is_none |-> FALSE, value |-> <<>>]

Returned(out) == out.raised = "" /\ ~out.is_none

\* ------------------------------------------------------------ construction
\* Graph(is_directed) / WeightedGraph(is_directed)
NewGraph(c, d) ==
    [cls |-> c, is_directed |-> d, vertex_dict |-> <<>>, objs |-> <<>>]

\* Graph.add_vertex / WeightedGraph.add_vertex: a fresh Vertex object is
\* stored under the id, whether or not the id is already a key
add_vertex(g, vertex_id) ==
    LET new_vertex == Len(g.objs) + 1
    IN  [g EXCEPT
            !.objs = Append(@, [id |-> vertex_id, neighbors_dict |-> <<>>]),
            !.vertex_dict = Put(@, vertex_id, new_vertex)]

\* Vertex.add_neighbor: self.__neighbors_dict[neighbor_id] = vertex_obj
Vertex_add_neighbor(objs, self, vertex_obj) ==
    [objs EXCEPT ![self].neighbors_dict = Put(@, objs[vertex_obj].id, <<vertex_obj, 1>>)]

\* WeightedVertex.add_neighbor: an id that is already a neighbour is kept
WeightedVertex_add_neighbor(objs, self, vertex_obj, weight) ==
    IF Has(objs[self].neighbors_dict, objs[vertex_obj].id)
    THEN objs
    ELSE [objs EXCEPT
            ![self].neighbors_dict = Put(@, objs[vertex_obj].id, <<vertex_obj, weight>>)]

\* Graph.add_edge: [graph |-> the graph after the call, out |-> the outcome]
Graph_add_edge(g, vertex_id1, vertex_id2) ==
    IF ~Has(g.vertex_dict, vertex_id1) \/ ~Has(g.vertex_dict, vertex_id2)
    THEN [graph |-> g, out |-> Raise("KeyError")]
    ELSE LET vertex_1 == Get(g.vertex_dict, vertex_id1)
             vertex_2 == Get(g.vertex_dict, vertex_id2)
             o1 == Vertex_add_neighbor(g.objs, vertex_1, vertex_2)
             o2 == IF g.is_directed THEN o1
                   ELSE Vertex_add_neighbor(o1, vertex_2, vertex_1)
         IN  [graph |-> [g EXCEPT !.objs = o2], out |-> ReturnNone]

\* an add_edge that creates an absent endpoint instead of raising
WeightedGraph_add_edge_creating(g, vertex_id1, vertex_id2, weight) ==
    LET g1 == IF Has(g.vertex_dict, vertex_id1) THEN g ELSE add_vertex(g, vertex_id1)
        g2 == IF Has(g1.vertex_dict, vertex_id2) THEN g1 ELSE add_vertex(g1, vertex_id2)
        vertex1 == Get(g2.vertex_dict, vertex_id1)
        vertex2 == Get(g2.vertex_dict, vertex_id2)
        o1 == WeightedVertex_add_neighbor(g2.objs, vertex1, vertex2, weight)
        o2 == IF g2.is_directed THEN o1
              ELSE WeightedVertex_add_neighbor(o1, vertex2, vertex1, weight)
    IN  [graph |-> [g2 EXCEPT !.objs = o2], out |-> ReturnNone]

\* WeightedGraph.add_edge
WeightedGraph_add_edge(g, vertex_id1, vertex_id2, weight) ==
    IF ~Has(g.vertex_dict, vertex_id1) \/ ~Has(g.vertex_dict, vertex_id2)
    THEN [graph |-> g, out |-> Raise("ValueError")]
    ELSE LET vertex1 == Get(g.vertex_dict, vertex_id1)
             vertex2 == Get(g.vertex_dict, vertex_id2)
             o1 == WeightedVertex_add_neighbor(g.objs, vertex1, vertex2, weight)
             o2 == IF g.is_directed THEN o1
                   ELSE WeightedVertex_add_neighbor(o1, vertex2, vertex1, weight)
         IN  [graph |-> [g EXCEPT !.objs = o2], out |-> ReturnNone]

\* add_edge of the graph's class
add_edge(g, vertex_id1, vertex_id2, weight) ==
    IF g.cls = "Graph"
    THEN Graph_add_edge(g, vertex_id1, vertex_id2)
    ELSE WeightedGraph_add_edge(g, vertex_id1, vertex_id2, weight)

\* Vertex.get_neighbors / WeightedVertex.get_neighbors: the neighbour objects
get_neighbors(g, v) ==
    LET nd == g.objs[v].neighbors_dict IN [i \in 1..Len(nd) |-> nd[i][2][1]]

\* WeightedVertex.get_neighbors_with_weights: the <<object, weight>> pairs
get_neighbors_with_weights(g, v) == Values(g.objs[v].neighbors_dict)

\* Vertex.get_id / WeightedVertex.get_id
get_id(g, v) == g.objs[v].id

\* Graph.contains_id
contains_id(g, vertex_id) == Has(g.vertex_dict, vertex_id)

\* Graph.get_vertex, for an id of the graph
get_vertex(g, vertex_id) == Get(g.vertex_dict, vertex_id)

\* a caller's construction calls run in order on a new graph: vertex ids,
\* then edges <<id1, id2, weight>>
RECURSIVE AddVertices(_, _)
AddVertices(g, ids) ==
    IF ids = <<>> THEN g ELSE AddVertices(add_vertex(g, Head(ids)), Tail(ids))

RECURSIVE AddEdges(_, _)
AddEdges(g, es) ==
    IF es = <<>> THEN g
    ELSE AddEdges(add_edge(g, Head(es)[1], Head(es)[2], Head(es)[3]).graph, Tail(es))

Build(c, d, ids, es) == AddEdges(AddVertices(NewGraph(c, d), ids), es)

\* TestGraph.make_large_graph: the A..J fixture of the tests
make_large_graph ==
    Build("WeightedGraph", FALSE, AllIds,
          << <<"A", "B", 4>>, <<"A", "C", 8>>, <<"B", "C", 11>>, <<"B", "D", 8>>,
             <<"C", "F", 1>>, <<"C", "E", 4>>, <<"D", "E", 2>>, <<"D", "G", 7>>,
             <<"D", "H", 4>>, <<"E", "F", 6>>, <<"F", "H", 2>>, <<"G", "H", 14>>,
             <<"G", "J", 9>>, <<"H", "J", 10>> >>)

\* ------------------------------------------------- WeightedGraph: Kruskal
\* Python's order on tuples of numbers
TupleLess(a, b) ==
    \E i \in 1..Len(a) : a[i] < b[i] /\ \A j \in 1..(i - 1) : a[j] = b[j]

\* <<weight, id1, id2>> and <<id1, id2, weight>> as tuples of numbers
EdgeKey(e) == <<e[1], IdOrd(e[2]), IdOrd(e[3])>>

MstKey(e) == <<IdOrd(e[1]), IdOrd(e[2]), e[3]>>

\* list.sort() / sorted() of a list of <<weight, id1, id2>> edges
RECURSIVE SortEdges(_)
SortEdges(s) ==
    IF s = <<>> THEN <<>>
    ELSE LET m == CHOOSE i \in 1..Len(s) :
                    \A j \in 1..Len(s) : ~TupleLess(EdgeKey(s[j]), EdgeKey(s[i]))
         IN  <<s[m]>> \o SortEdges(SubSeq(s, 1, m - 1) \o SubSeq(s, m + 1, Len(s)))

\* sorted() of a list of <<id1, id2, weight>> edges
RECURSIVE SortMst(_)
SortMst(s) ==
    IF s = <<>> THEN <<>>
    ELSE LET m == CHOOSE i \in 1..Len(s) :
                    \A j \in 1..Len(s) : ~TupleLess(MstKey(s[j]), MstKey(s[i]))
         IN  <<s[m]>> \o SortMst(SubSeq(s, 1, m - 1) \o SubSeq(s, m + 1, Len(s)))

\* sort_edges, first inner loop: the edges of the current vertex that are not
\* in the list yet, in either direction
RECURSIVE sort_edges_collect(_, _, _, _)
sort_edges_collect(g, current_vertex_id, neighbor_weights, edges) ==
    IF neighbor_weights = <<>> THEN edges
    ELSE LET neighbor == Head(neighbor_weights)[1]
             weight == Head(neighbor_weights)[2]
             weight_edge == <<weight, current_vertex_id, g.objs[neighbor].id>>
             reverse_weight_edge == <<weight, g.objs[neighbor].id, current_vertex_id>>
         IN  sort_edges_collect(g, current_vertex_id, Tail(neighbor_weights),
                IF ~InSeq(weight_edge, edges) /\ ~InSeq(reverse_weight_edge, edges)
                THEN Append(edges, weight_edge) ELSE edges)

\* sort_edges, second inner loop: [seen, queue] after the unseen neighbours
\* are enqueued
RECURSIVE sort_edges_enqueue(_, _, _, _)
sort_edges_enqueue(g, neighbors, seen, queue) ==
    IF neighbors = <<>> THEN [seen |-> seen, queue |-> queue]
    ELSE LET neighbor == Head(neighbors)
         IN  IF get_id(g, neighbor) \notin seen
             THEN sort_edges_enqueue(g, Tail(neighbors),
                     seen \cup {get_id(g, neighbor)}, Append(queue, neighbor))
             ELSE sort_edges_enqueue(g, Tail(neighbors), seen, queue)

\* sort_edges, the while loop
RECURSIVE sort_edges_bfs(_, _, _, _)
sort_edges_bfs(g, seen, queue, edges) ==
    IF queue = <<>> THEN edges
    ELSE LET current_vertex_obj == Head(queue)
             current_vertex_id == get_id(g, current_vertex_obj)
             edges2 == sort_edges_collect(g, current_vertex_id,
                          Values(g.objs[current_vertex_obj].neighbors_dict), edges)
             sq == sort_edges_enqueue(g, get_neighbors(g, current_vertex_obj),
                                      seen, Tail(queue))
         IN  sort_edges_bfs(g, sq.seen, sq.queue, edges2)

\* WeightedGraph.sort_edges, for an id of the graph
sort_edges(g, start_id) ==
    SortEdges(sort_edges_bfs(g, {start_id}, <<Get(g.vertex_dict, start_id)>>, <<>>))

\* WeightedGraph.find
RECURSIVE find(_, _)
find(parent_map, vertex_id) ==
    IF Get(parent_map, vertex_id) = vertex_id THEN vertex_id
    ELSE find(parent_map, Get(parent_map, vertex_id))

\* WeightedGraph.union: the parent_map after the call
union(parent_map, vertex_id1, vertex_id2) ==
    Put(parent_map, find(parent_map, vertex_id1), find(parent_map, vertex_id2))

\* parent_map[vertex_obj.id] = vertex_obj.id for every object of vertex_dict
RECURSIVE kruskal_parent_map(_, _, _)
kruskal_parent_map(g, vs, parent_map) ==
    IF vs = <<>> THEN parent_map
    ELSE kruskal_parent_map(g, Tail(vs),
            Put(parent_map, g.objs[Head(vs)].id, g.objs[Head(vs)].id))

\* minimum_spanning_tree_kruskal, the while loop. An iteration that finds the
\* two roots equal changes nothing, so the loop repeats it for ever.
RECURSIVE kruskal_loop(_, _, _, _)
kruskal_loop(g, edges, parent_map, mst_edges) ==
    IF ~(Len(mst_edges) < Len(g.vertex_dict) - 1) THEN Return(SortMst(mst_edges))
    ELSE IF edges = <<>> THEN Raise("IndexError")
    ELSE LET next_edge == edges[1]
             weight == next_edge[1]
             vertex1_id == next_edge[2]
             vertex2_id == next_edge[3]
         IN  IF find(parent_map, vertex1_id) # find(parent_map, vertex2_id)
             THEN kruskal_loop(g, Remove(edges, next_edge), parent_map,
                               Append(mst_edges, <<vertex1_id, vertex2_id, weight>>))
             ELSE Diverges

\* WeightedGraph.minimum_spanning_tree_kruskal
minimum_spanning_tree_kruskal(g) ==
    IF g.vertex_dict = <<>> THEN Raise("IndexError")
    ELSE LET start_id == Keys(g.vertex_dict)[1]
             edges == sort_edges(g, start_id)
             parent_map == kruskal_parent_map(g, Values(g.vertex_dict), <<>>)
         IN  kruskal_loop(g, edges, parent_map, <<>>)

\* ---------------------------------------------------- WeightedGraph: Prim
\* vertex_to_weight[vertex_obj] = float('inf') for every object of vertex_dict
all_inf(g) == [i \in 1..Len(g.vertex_dict) |-> <<g.vertex_dict[i][2], Inf>>]

\* min(list(vertex_to_weight.values())), for a non-empty dict
min_value(vertex_to_weight) ==
    CHOOSE m \in Range(Values(vertex_to_weight)) :
        \A x \in Range(Values(vertex_to_weight)) : m <= x

\* the scan for the minimum never breaks: the last key with the minimum wins
last_min_vertex(vertex_to_weight) ==
    LET i == CHOOSE j \in 1..Len(vertex_to_weight) :
                /\ vertex_to_weight[j][2] = min_value(vertex_to_weight)
                /\ \A m \in (j + 1)..Len(vertex_to_weight) :
                      vertex_to_weight[m][2] # min_value(vertex_to_weight)
    IN  vertex_to_weight[i][1]

\* the relaxation loop of Prim and of Dijkstra: a neighbour still in the dict
\* takes the weight of the edge to it when that is smaller
RECURSIVE relax(_, _)
relax(neighbor_weights, vertex_to_weight) ==
    IF neighbor_weights = <<>> THEN vertex_to_weight
    ELSE LET neighbor == Head(neighbor_weights)[1]
             weight == Head(neighbor_weights)[2]
         IN  relax(Tail(neighbor_weights),
                IF Has(vertex_to_weight, neighbor)
                   /\ weight < Get(vertex_to_weight, neighbor)
                THEN Put(vertex_to_weight, neighbor, weight)
                ELSE vertex_to_weight)

\* minimum_spanning_tree_prim, the while loop. The name weight is the total
\* and also the loop variable of both for loops.
RECURSIVE prim_loop(_, _, _)
prim_loop(g, vertex_to_weight, weight) ==
    IF Len(vertex_to_weight) = 0 THEN Return(weight)
    ELSE LET min_distance == min_value(vertex_to_weight)
             min_vertex == last_min_vertex(vertex_to_weight)
             weight_scan == vertex_to_weight[Len(vertex_to_weight)][2]
             weight_sum == Plus(weight_scan, min_distance)
             neighbor_weights == Values(g.objs[min_vertex].neighbors_dict)
             weight_relax == IF neighbor_weights = <<>> THEN weight_sum
                             ELSE neighbor_weights[Len(neighbor_weights)][2]
         IN  prim_loop(g, relax(neighbor_weights, Del(vertex_to_weight, min_vertex)),
                       weight_relax)

\* WeightedGraph.minimum_spanning_tree_prim
minimum_spanning_tree_prim(g) ==
    IF g.vertex_dict = <<>> THEN Raise("IndexError")
    ELSE LET start_vertex == g.vertex_dict[1][2]
         IN  prim_loop(g, Put(all_inf(g), start_vertex, 0), 0)

\* ------------------------------------------------ WeightedGraph: Dijkstra
\* find_shortest_path, the while loop. del vertex_to_weight[vertex] deletes
\* the key the scan ended on, the last key of the dict.
RECURSIVE dijkstra_loop(_, _, _, _)
dijkstra_loop(g, target_id, vertex_to_weight, path_weight) ==
    IF Len(vertex_to_weight) = 0 THEN ReturnNone
    ELSE LET min_distance == min_value(vertex_to_weight)
             min_vertex == last_min_vertex(vertex_to_weight)
             vertex == vertex_to_weight[Len(vertex_to_weight)][1]
             path_weight2 == Plus(path_weight, min_distance)
         IN  IF g.objs[min_vertex].id = target_id THEN Return(path_weight2)
             ELSE dijkstra_loop(g, target_id,
                     relax(Values(g.objs[min_vertex].neighbors_dict),
                           Del(vertex_to_weight, vertex)),
                     path_weight2)

\* WeightedGraph.find_shortest_path
WeightedGraph_find_shortest_path(g, start_id, target_id) ==
    IF ~Has(g.vertex_dict, start_id) THEN Raise("KeyError")
    ELSE dijkstra_loop(g, target_id,
            Put(all_inf(g), Get(g.vertex_dict, start_id), 0), 0)

\* ------------------------------------------ WeightedGraph: Floyd-Warshall
\* the j loop: dist[i][j] = min(dist[i][j], dist[i][k] + dist[k][j])
RECURSIVE floyd_warshall_j(_, _, _, _)
floyd_warshall_j(dist, k, i, js) ==
    IF js = <<>> THEN dist
    ELSE LET j == Head(js)
             through_k == Plus(dist[i][k], dist[k][j])
         IN  floyd_warshall_j(
                [dist EXCEPT ![i][j] = IF through_k < @ THEN through_k ELSE @],
                k, i, Tail(js))

\* (the test on DOMAIN makes TLC finish one loop before it starts the next)
RECURSIVE floyd_warshall_i(_, _, _, _)
floyd_warshall_i(dist, k, is, all_vertex_ids) ==
    IF is = <<>> THEN dist
    ELSE LET after_j == floyd_warshall_j(dist, k, Head(is), all_vertex_ids)
         IN  IF DOMAIN after_j = DOMAIN dist
             THEN floyd_warshall_i(after_j, k, Tail(is), all_vertex_ids)
             ELSE after_j

RECURSIVE floyd_warshall_k(_, _, _)
floyd_warshall_k(dist, ks, all_vertex_ids) ==
    IF ks = <<>> THEN dist
    ELSE LET after_i == floyd_warshall_i(dist, Head(ks), all_vertex_ids, all_vertex_ids)
         IN  IF DOMAIN after_i = DOMAIN dist
             THEN floyd_warshall_k(after_i, Tail(ks), all_vertex_ids)
             ELSE after_i

\* WeightedGraph.floyd_warshall: the dict of dicts as a function of two ids.
\* The loop that should read the edge weights is a pass.
floyd_warshall(g) ==
    LET all_vertex_ids == Keys(g.vertex_dict)
        dist == [id \in Range(all_vertex_ids) |->
                    [id2 \in Range(all_vertex_ids) |-> IF id = id2 THEN 0 ELSE Inf]]
    IN  Return(floyd_warshall_k(dist, all_vertex_ids, all_vertex_ids))

\* ------------------------------------------- Graph: find_shortest_path
\* the for loop over the neighbours of the current vertex: [paths, queue]
RECURSIVE shortest_path_neighbors(_, _, _, _, _)
shortest_path_neighbors(g, current_vertex_id, neighbors, vertex_id_to_path, queue) ==
    IF neighbors = <<>> THEN [paths |-> vertex_id_to_path, queue |-> queue]
    ELSE LET neighbor == Head(neighbors)
             next_path == Append(Get(vertex_id_to_path, current_vertex_id),
                                 get_id(g, neighbor))
         IN  IF ~Has(vertex_id_to_path, get_id(g, neighbor))
             THEN shortest_path_neighbors(g, current_vertex_id, Tail(neighbors),
                     Put(vertex_id_to_path, get_id(g, neighbor), next_path),
                     Append(queue, neighbor))
             ELSE shortest_path_neighbors(g, current_vertex_id, Tail(neighbors),
                     vertex_id_to_path, queue)

\* the while loop: queue.pop() takes the vertex appended last
RECURSIVE shortest_path_loop(_, _, _, _)
shortest_path_loop(g, target_id, vertex_id_to_path, queue) ==
    IF queue = <<>> THEN vertex_id_to_path
    ELSE LET current_vertex_obj == queue[Len(queue)]
             current_vertex_id == get_id(g, current_vertex_obj)
             pq == shortest_path_neighbors(g, current_vertex_id,
                      get_neighbors(g, current_vertex_obj), vertex_id_to_path,
                      SubSeq(queue, 1, Len(queue) - 1))
         IN  IF current_vertex_id = target_id THEN vertex_id_to_path
             ELSE shortest_path_loop(g, target_id, pq.paths, pq.queue)

\* Graph.find_shortest_path
Graph_find_shortest_path(g, start_id, target_id) ==
    IF ~contains_id(g, start_id) \/ ~contains_id(g, target_id)
    THEN Raise("KeyError")
    ELSE LET vertex_id_to_path ==
                 shortest_path_loop(g, target_id, <<<<start_id, <<start_id>>>>>>,
                                    <<get_vertex(g, start_id)>>)
         IN  IF ~Has(vertex_id_to_path, target_id) THEN ReturnNone
             ELSE Return(Get(vertex_id_to_path, target_id))

\* ------------------------------------------------- Graph: contains_cycle
\* Graph.dfs_for_cycles: [ret, visited, current_path], ret "True" or "None";
\* visited and current_path are the caller's set and list after the call.
\* dfs_for_cycles_loop is its for loop, has_a_cycle being "False", "True" or
\* "None": every recursive call overwrites it, and a neighbour on
\* current_path returns True at once, leaving current_path as it is.
RECURSIVE dfs_for_cycles(_, _, _, _)
RECURSIVE dfs_for_cycles_loop(_, _, _, _, _, _)
dfs_for_cycles_loop(g, start_vertex, neighbors, visited, current_path, has_a_cycle) ==
    IF neighbors = <<>>
    THEN [ret |-> IF has_a_cycle = "True" THEN "True" ELSE "None",
          visited |-> visited,
          current_path |-> Remove(current_path, start_vertex)]
    ELSE LET neighbor == Head(neighbors)
             r == dfs_for_cycles(g, neighbor, visited, current_path)
         IN  IF ~InSeq(neighbor, current_path)
             THEN dfs_for_cycles_loop(g, start_vertex, Tail(neighbors),
                                      r.visited, r.current_path, r.ret)
             ELSE [ret |-> "True", visited |-> visited, current_path |-> current_path]

dfs_for_cycles(g, start_vertex, visited, current_path) ==
    dfs_for_cycles_loop(g, start_vertex, get_neighbors(g, start_vertex),
                        visited \cup {start_vertex},
                        Append(current_path, start_vertex), "False")

\* contains_cycle, the for loop over the objects of vertex_dict
RECURSIVE contains_cycle_loop(_, _, _)
contains_cycle_loop(g, vertices, visited) ==
    IF vertices = <<>> THEN Return(FALSE)
    ELSE LET vertex == Head(vertices)
             r == dfs_for_cycles(g, vertex, visited, <<>>)
         IN  IF vertex \notin visited
             THEN IF r.ret = "True" THEN Return(TRUE)
                  ELSE contains_cycle_loop(g, Tail(vertices), r.visited)
             ELSE contains_cycle_loop(g, Tail(vertices), visited)

\* Graph.contains_cycle
contains_cycle(g) == contains_cycle_loop(g, Values(g.vertex_dict), {})

\* --------------------------------------------------- Graph: is_bipartite
\* the for loop over the neighbours: [same, vertex_groups, queue]; same is
\* TRUE when a neighbour has the group of the current vertex (return False)
RECURSIVE is_bipartite_neighbors(_, _, _, _, _, _)
is_bipartite_neighbors(g, neighbors, current_group_num, seen, vertex_groups, queue) ==
    IF neighbors = <<>>
    THEN [same |-> FALSE, vertex_groups |-> vertex_groups, queue |-> queue]
    ELSE LET neighbor_id == get_id(g, Head(neighbors))
             group_to_assign == IF current_group_num = 0 THEN 1 ELSE 0
         IN  IF Has(vertex_groups, neighbor_id)
             THEN IF Get(vertex_groups, neighbor_id) = current_group_num
                  THEN [same |-> TRUE, vertex_groups |-> vertex_groups, queue |-> queue]
                  ELSE is_bipartite_neighbors(g, Tail(neighbors), current_group_num,
                                              seen, vertex_groups, queue)
             ELSE IF neighbor_id \notin seen
                  THEN is_bipartite_neighbors(g, Tail(neighbors), current_group_num,
                          seen, Put(vertex_groups, neighbor_id, group_to_assign),
                          <<<<Head(neighbors), group_to_assign>>>> \o queue)
                  ELSE is_bipartite_neighbors(g, Tail(neighbors), current_group_num,
                                              seen, vertex_groups, queue)

\* the while loop: queue.pop() at the right end, queue.appendleft at the left
RECURSIVE is_bipartite_loop(_, _, _, _)
is_bipartite_loop(g, seen, vertex_groups, queue) ==
    IF queue = <<>> THEN Return(TRUE)
    ELSE LET current_vertex_obj == queue[Len(queue)][1]
             current_group_num == queue[Len(queue)][2]
             seen2 == seen \cup {get_id(g, current_vertex_obj)}
             r == is_bipartite_neighbors(g, get_neighbors(g, current_vertex_obj),
                     current_group_num, seen2, vertex_groups,
                     SubSeq(queue, 1, Len(queue) - 1))
         IN  IF r.same THEN Return(FALSE)
             ELSE is_bipartite_loop(g, seen2, r.vertex_groups, r.queue)

\* Graph.is_bipartite: the search starts at the first key of vertex_dict and
\* nowhere else
is_bipartite(g) ==
    IF g.vertex_dict = <<>> THEN Raise("IndexError")
    ELSE LET start_id == Keys(g.vertex_dict)[1]
         IN  is_bipartite_loop(g, {}, <<<<start_id, 0>>>>,
                               <<<<Get(g.vertex_dict, start_id), 0>>>>)

\* ----------------------------------------------- Graph: topological_sort
\* Graph.dfs_for_top_sort: [visited, solution_stack] after the call;
\* dfs_for_top_sort_loop is its for loop
RECURSIVE dfs_for_top_sort(_, _, _, _)
RECURSIVE dfs_for_top_sort_loop(_, _, _, _, _)
dfs_for_top_sort_loop(g, vertex, neighbors, solution_stack, visited) ==
    IF neighbors = <<>>
    THEN [visited |-> visited, solution_stack |-> Append(solution_stack, vertex)]
    ELSE LET r == dfs_for_top_sort(g, Head(neighbors), solution_stack, visited)
         IN  IF Head(neighbors) \notin visited
             THEN dfs_for_top_sort_loop(g, vertex, Tail(neighbors),
                                        r.solution_stack, r.visited)
             ELSE dfs_for_top_sort_loop(g, vertex, Tail(neighbors),
                                        solution_stack, visited)

dfs_for_top_sort(g, vertex, solution_stack, visited) ==
    dfs_for_top_sort_loop(g, vertex, get_neighbors(g, vertex), solution_stack,
                          visited \cup {vertex})

\* topological_sort, the for loop over the objects of vertex_dict
RECURSIVE top_sort_loop(_, _, _, _)
top_sort_loop(g, vertices, solution_stack, visited) ==
    IF vertices = <<>> THEN solution_stack
    ELSE LET r == dfs_for_top_sort(g, Head(vertices), solution_stack, visited)
         IN  IF Head(vertices) \notin visited
             THEN top_sort_loop(g, Tail(vertices), r.solution_stack, r.visited)
             ELSE top_sort_loop(g, Tail(vertices), solution_stack, visited)

\* Graph.topological_sort: no cycle check; len(vertex_dict) pops of the stack
topological_sort(g) ==
    LET solution_stack == top_sort_loop(g, Values(g.vertex_dict), <<>>, {})
        n == Len(g.vertex_dict)
        m == Len(solution_stack)
    IN  IF m < n THEN Raise("IndexError")
        ELSE Return([i \in 1..n |-> get_id(g, solution_stack[m + 1 - i])])

\* ------------------------------------------------ Graph: greedy_coloring
\* the colours of the neighbours that have one: neighbors_colors
greedy_coloring_neighbors(g, neighbors, vertex_id_color) ==
    LET coloured == SelectSeq(neighbors,
                              LAMBDA neighbor : Has(vertex_id_color, get_id(g, neighbor)))
    IN  [i \in 1..Len(coloured) |-> Get(vertex_id_color, get_id(g, coloured[i]))]

\* for color in possible_colors: every colour no neighbour has is assigned in
\* turn, there is no break, so the last of them stays
RECURSIVE greedy_coloring_choose(_, _, _, _)
greedy_coloring_choose(possible_colors, neighbors_colors, vertex_id, vertex_id_color) ==
    IF possible_colors = <<>> THEN vertex_id_color
    ELSE greedy_coloring_choose(
             Tail(possible_colors), neighbors_colors, vertex_id,
             IF ~InSeq(Head(possible_colors), neighbors_colors)
             THEN Put(vertex_id_color, vertex_id, Head(possible_colors))
             ELSE vertex_id_color)

\* for vertex_id in self.__vertex_dict
RECURSIVE greedy_coloring_loop(_, _, _, _)
greedy_coloring_loop(g, vertex_ids, possible_colors, vertex_id_color) ==
    IF vertex_ids = <<>> THEN vertex_id_color
    ELSE LET vertex_id == Head(vertex_ids)
             neighbors == get_neighbors(g, get_vertex(g, vertex_id))
             neighbors_colors ==
                 greedy_coloring_neighbors(g, neighbors, vertex_id_color)
         IN  greedy_coloring_loop(
                 g, Tail(vertex_ids), possible_colors,
                 IF Has(vertex_id_color, vertex_id) THEN vertex_id_color
                 ELSE greedy_coloring_choose(possible_colors, neighbors_colors,
                                             vertex_id, vertex_id_color))

\* Graph.greedy_coloring: the dictionary vertex id -> colour
greedy_coloring(g) ==
    Return(greedy_coloring_loop(
               g, Keys(g.vertex_dict),
               [i \in 1..Len(g.vertex_dict) |-> i - 1], <<>>))

\* -------------------------------------------------- Graph: bfs_traversal
\* the for loop over the neighbours of the current vertex: [seen, queue]
RECURSIVE bfs_traversal_neighbors(_, _, _, _)
bfs_traversal_neighbors(g, neighbors, seen, queue) ==
    IF neighbors = <<>> THEN [seen |-> seen, queue |-> queue]
    ELSE LET neighbor == Head(neighbors)
         IN  IF get_id(g, neighbor) \notin seen
             THEN bfs_traversal_neighbors(g, Tail(neighbors),
                     seen \cup {get_id(g, neighbor)}, Append(queue, neighbor))
             ELSE bfs_traversal_neighbors(g, Tail(neighbors), seen, queue)

\* the while loop: queue.popleft() takes the vertex appended first; processed
\* is the list of the ids printed so far
RECURSIVE bfs_traversal_loop(_, _, _, _)
bfs_traversal_loop(g, seen, queue, processed) ==
    IF queue = <<>> THEN processed
    ELSE LET current_vertex_obj == Head(queue)
             current_vertex_id == get_id(g, current_vertex_obj)
             sq == bfs_traversal_neighbors(g, get_neighbors(g, current_vertex_obj),
                                           seen, Tail(queue))
         IN  bfs_traversal_loop(g, sq.seen, sq.queue,
                                Append(processed, current_vertex_id))

\* Graph.bfs_traversal: it returns None; the value of the outcome is the list
\* of the ids it has processed, in the order of the 'Processing vertex' lines
bfs_traversal(g, start_id) ==
    IF ~contains_id(g, start_id) THEN Raise("KeyError")
    ELSE [ReturnNone EXCEPT
             !.value = bfs_traversal_loop(g, {start_id},
                                          <<get_vertex(g, start_id)>>, <<>>)]

\* ------------------------------------------- Graph: find_vertices_n_away
\* the inner while loop, which empties the queue: [vertex_distances, neighbors]
RECURSIVE find_vertices_n_away_dequeue(_, _, _, _, _)
find_vertices_n_away_dequeue(g, queue, steps, vertex_distances, neighbors) ==
    IF queue = <<>>
    THEN [vertex_distances |-> vertex_distances, neighbors |-> neighbors]
    ELSE LET current_vertex_obj == Head(queue)
             current_vertex_id == get_id(g, current_vertex_obj)
         IN  find_vertices_n_away_dequeue(g, Tail(queue), steps,
                 IF ~Has(vertex_distances, current_vertex_id)
                 THEN Put(vertex_distances, current_vertex_id, steps + 1)
                 ELSE vertex_distances,
                 neighbors \o get_neighbors(g, current_vertex_obj))

\* while steps < target_distance: the neighbours collected in one round are
\* the queue of the next
RECURSIVE find_vertices_n_away_loop(_, _, _, _, _)
find_vertices_n_away_loop(g, target_distance, steps, vertex_distances, queue) ==
    IF ~(steps < target_distance) THEN vertex_distances
    ELSE LET r == find_vertices_n_away_dequeue(g, queue, steps, vertex_distances, <<>>)
         IN  find_vertices_n_away_loop(g, target_distance, steps + 1,
                                       r.vertex_distances, r.neighbors)

\* Graph.find_vertices_n_away
find_vertices_n_away(g, start_id, target_distance) ==
    IF ~contains_id(g, start_id) THEN Raise("KeyError")
    ELSE LET vertex_distances ==
                 find_vertices_n_away_loop(g, target_distance, 0 - 1, <<>>,
                                           <<get_vertex(g, start_id)>>)
         IN  Return(Keys(SelectSeq(vertex_distances,
                                   LAMBDA e : e[2] = target_distance)))

\* -------------------------------------- Graph: find_connected_components
\* Graph.dfs_for_cc: [visited, connected], the caller's set of vertex objects
\* and list of ids after the call; dfs_for_cc_loop is its for loop
RECURSIVE dfs_for_cc(_, _, _, _)
RECURSIVE dfs_for_cc_loop(_, _, _, _)
dfs_for_cc_loop(g, neighbors, visited, connected) ==
    IF neighbors = <<>> THEN [visited |-> visited, connected |-> connected]
    ELSE LET n == Head(neighbors)
             r == IF n \notin visited THEN dfs_for_cc(g, n, visited, connected)
                  ELSE [visited |-> visited, connected |-> connected]
         IN  dfs_for_cc_loop(g, Tail(neighbors), r.visited, r.connected)

dfs_for_cc(g, vertex, visited, connected) ==
    dfs_for_cc_loop(g, get_neighbors(g, vertex), visited \cup {vertex},
                    Append(connected, get_id(g, vertex)))

\* for vertex in self.__vertex_dict.values()
RECURSIVE find_connected_components_loop(_, _, _, _)
find_connected_components_loop(g, vertices, visited, all_connected_components) ==
    IF vertices = <<>> THEN all_connected_components
    ELSE LET vertex == Head(vertices)
             r == dfs_for_cc(g, vertex, visited, <<>>)
         IN  IF vertex \notin visited
             THEN find_connected_components_loop(g, Tail(vertices), r.visited,
                     Append(all_connected_components, r.connected))
             ELSE find_connected_components_loop(g, Tail(vertices), visited,
                     all_connected_components)

\* Graph.find_connected_components: the list of the lists of ids
find_connected_components(g) ==
    Return(find_connected_components_loop(g, Values(g.vertex_dict), {}, <<>>))

\* ---------------------------------------------------------- BinaryMinHeap
\* self.items is a sequence; the code's index i is position i + 1 of it.
_last_index(heap_items) == Len(heap_items) - 1

_parent_index(index) == (index - 1) \div 2

_left_child_index(index) == 2 * index + 1

_right_child_index(index) == 2 * index + 2

\* self.items[i], self.items[j] = self.items[j], self.items[i]
Swap(heap_items, i, j) ==
    [heap_items EXCEPT ![i + 1] = heap_items[j + 1], ![j + 1] = heap_items[i + 1]]

\* a _bubble_up that swaps the item with its parent once and stops
_bubble_up_once(heap_items, index) ==
    IF index = 0 THEN heap_items
    ELSE IF heap_items[index + 1] < heap_items[_parent_index(index) + 1]
         THEN Swap(heap_items, index, _parent_index(index))
         ELSE heap_items

\* BinaryMinHeap._bubble_up: the items after the call (the callers pass an
\* index of the array)
RECURSIVE _bubble_up(_, _)
_bubble_up(heap_items, index) ==
    IF index = 0 THEN heap_items
    ELSE LET item == heap_items[index + 1]
             parent_index == _parent_index(index)
             parent_item == heap_items[parent_index + 1]
             swapped == Swap(heap_items, index, parent_index)
         IN  IF item < parent_item
             THEN IF parent_index > 0
                     /\ item < swapped[_parent_index(parent_index) + 1]
                  THEN _bubble_up(swapped, parent_index)
                  ELSE swapped
             ELSE heap_items

\* a _bubble_down that compares the item with its left child only
RECURSIVE _bubble_down_left_only(_, _)
_bubble_down_left_only(heap_items, index) ==
    LET left_index == _left_child_index(index)
    IN  IF left_index > _last_index(heap_items) THEN heap_items
        ELSE IF heap_items[index + 1] > heap_items[left_index + 1]
             THEN _bubble_down_left_only(Swap(heap_items, index, left_index), left_index)
             ELSE heap_items

\* BinaryMinHeap._bubble_down: the items after the call
RECURSIVE _bubble_down(_, _)
_bubble_down(heap_items, index) ==
    LET left_index == _left_child_index(index)
        right_index == _right_child_index(index)
        last_index == _last_index(heap_items)
    IN  IF left_index > last_index THEN heap_items
        ELSE LET item == heap_items[index + 1]
                 child_index ==
                     IF right_index <= last_index
                        /\ heap_items[right_index + 1] < heap_items[left_index + 1]
                     THEN right_index
                     ELSE left_index
                 child_item == heap_items[child_index + 1]
             IN  IF item > child_item
                 THEN _bubble_down(Swap(heap_items, index, child_index), child_index)
                 ELSE heap_items

\* BinaryMinHeap.insert: the items after the call
insert(heap_items, item) ==
    LET appended == Append(heap_items, item)
    IN  IF Len(appended) > 1 THEN _bubble_up(appended, _last_index(appended))
        ELSE appended

\* BinaryMinHeap.get_min: the outcome
get_min(heap_items) ==
    IF Len(heap_items) = 0 THEN Raise("ValueError") ELSE Return(heap_items[1])

\* BinaryMinHeap.delete_min: [items |-> the items after the call, out |-> the outcome]
delete_min(heap_items) ==
    IF Len(heap_items) = 0 THEN [items |-> heap_items, out |-> Raise("ValueError")]
    ELSE IF Len(heap_items) = 1 THEN [items |-> <<>>, out |-> Return(heap_items[1])]
    ELSE LET min_item == heap_items[1]
             last_item == heap_items[Len(heap_items)]
             popped == SubSeq(heap_items, 1, Len(heap_items) - 1)
             moved == [popped EXCEPT ![1] = last_item]
         IN  [items |-> IF Len(moved) > 1 THEN _bubble_down(moved, 0) ELSE moved,
              out |-> Return(min_item)]

\* BinaryMinHeap.replace_min: [items, out]
replace_min(heap_items, item) ==
    IF Len(heap_items) = 0 THEN [items |-> heap_items, out |-> Raise("ValueError")]
    ELSE LET min_item == heap_items[1]
             replaced == [heap_items EXCEPT ![1] = item]
         IN  [items |-> IF Len(replaced) > 1 THEN _bubble_down(replaced, 0) ELSE replaced,
              out |-> Return(min_item)]

\* BinaryMinHeap(items): the given items inserted one by one
RECURSIVE BinaryMinHeap_insert_all(_, _)
BinaryMinHeap_insert_all(heap_items, given) ==
    IF given = <<>> THEN heap_items
    ELSE BinaryMinHeap_insert_all(insert(heap_items, Head(given)), Tail(given))

BinaryMinHeap(given) == BinaryMinHeap_insert_all(<<>>, given)

\* heap_sort, the loop items[i] = heap.delete_min() from position i on:
\* [items |-> the caller's list so far, out |-> ReturnNone or what a
\* delete_min raised]
RECURSIVE heap_sort_loop(_, _, _)
heap_sort_loop(given, i, heap_items) ==
    IF i > Len(given) THEN [items |-> given, out |-> ReturnNone]
    ELSE LET r == delete_min(heap_items)
         IN  IF r.out.raised # "" THEN [items |-> given, out |-> r.out]
             ELSE heap_sort_loop([given EXCEPT ![i] = r.out.value], i + 1, r.items)

\* heap_sort: sorts the caller's list in place and returns None
heap_sort(given) == heap_sort_loop(given, 1, BinaryMinHeap(given))

\* ------------------------------------------------------------ the callers
\* Graphs a caller has built before the algorithms run: on the first n ids,
\* added in order, the edges of a choice w of pairs (w[p] = 0: no such edge),
\* added in the order of the pair list or in the reverse order.
Reverse(s) == [i \in 1..Len(s) |-> s[Len(s) + 1 - i]]

FirstIds(n) == SubSeq(AllIds, 1, n)

\* the pairs <<i, j>> of positions in 1..n, in lexicographic order
RECURSIVE PairsFrom(_, _, _)
PairsFrom(n, i, j) ==
    IF i > n THEN <<>>
    ELSE IF j > n THEN PairsFrom(n, i + 1, 1)
    ELSE <<<<i, j>>>> \o PairsFrom(n, i, j + 1)

\* every ordered pair, self-loops included
OrderedPairs(n) == PairsFrom(n, 1, 1)

\* every ordered pair of distinct ids
DistinctPairs(n) == SelectSeq(PairsFrom(n, 1, 1), LAMBDA p : p[1] # p[2])

\* every unordered pair of distinct ids once
UnorderedPairs(n) == SelectSeq(PairsFrom(n, 1, 1), LAMBDA p : p[1] < p[2])

EdgeCalls(pairs, w) ==
    LET chosen == SelectSeq(pairs, LAMBDA p : w[p] # 0)
    IN  [k \in 1..Len(chosen) |->
            <<AllIds[chosen[k][1]], AllIds[chosen[k][2]], w[chosen[k]]>>]

BuiltGraphs(c, d, n, pairs, weights) ==
    { Build(c, d, FirstIds(n), IF rev THEN Reverse(EdgeCalls(pairs, w))
                               ELSE EdgeCalls(pairs, w)) :
        w \in [Range(pairs) -> {0} \cup weights], rev \in BOOLEAN }

\* vertices of the built graphs of each kind
UndirectedIds == 5
DirectedIds == 3
WeightedUndirectedIds == 4
WeightedDirectedIds == 3

CallerGraphs ==
    BuiltGraphs("Graph", FALSE, UndirectedIds, UnorderedPairs(UndirectedIds), {1})
    \cup BuiltGraphs("Graph", TRUE, DirectedIds, OrderedPairs(DirectedIds), {1})
    \cup BuiltGraphs("WeightedGraph", FALSE, WeightedUndirectedIds,
                     UnorderedPairs(WeightedUndirectedIds), Weights)
    \cup BuiltGraphs("WeightedGraph", TRUE, WeightedDirectedIds,
                     DistinctPairs(WeightedDirectedIds), Weights)
    \cup {make_large_graph}

\* the directed graphs of a caller that, after the edges, adds one of the ids
\* once more
ReAddedGraphs ==
    { add_vertex(g, AllIds[i]) :
        g \in BuiltGraphs("Graph", TRUE, DirectedIds, OrderedPairs(DirectedIds), {1}),
        i \in 1..DirectedIds }

\* ------------------------------------------------------------------ state
\* graph: the Graph / WeightedGraph object
\* nops:  calls counted against MaxOps
\* last:  the last call, [op, args, out]
\* heap:  self.items of a BinaryMinHeap
\* items: the list the heap was built from, which heap_sort sorts in place
VARIABLES graph, nops, last, heap, items

vars == <<graph, nops, last, heap, items>>

Call(op, args, out) == [op |-> op, args |-> args, out |-> out]

\* a new graph, or a graph one of the callers has built, on which one more
\* call is explored
Init ==
    /\ \/ /\ graph \in {NewGraph(c, d) : c \in {"Graph", "WeightedGraph"}, d \in BOOLEAN}
          /\ nops = 0
       \/ /\ graph \in CallerGraphs \cup ReAddedGraphs
          /\ nops = MaxOps - 1
    /\ last = Call("__init__", <<>>, ReturnNone)
    /\ items = <<>>
    /\ heap = BinaryMinHeap(items)

\* ids a call is explored with: those of the graph and the explored ids
ArgIds == Range(Keys(graph.vertex_dict)) \cup Ids

\* a method of Graph that reads self.__vertex_dict: WeightedGraph.__init__
\* never sets that attribute
GraphMethod(out) == IF graph.cls = "Graph" THEN out ELSE Raise("AttributeError")

\* a method only WeightedGraph defines
WeightedGraphMethod(out) ==
    IF graph.cls = "WeightedGraph" THEN out ELSE Raise("AttributeError")

\* an algorithm that empties the adjacency of the vertices it has walked
AlgorithmCall_consuming(g, out) ==
    [graph |-> [g EXCEPT !.objs = [i \in 1..Len(g.objs) |->
                                     [g.objs[i] EXCEPT !.neighbors_dict = <<>>]]],
     out |-> out]

\* A call of an algorithm method, with whatever outcome: [graph, out]. The
\* methods reach the graph through self.vertex_dict, get_neighbors() and
\* neighbors_dict.values(), which they iterate or copy with list(...); what
\* they add to, pop from, remove from or delete from (seen, queue, edges,
\* parent_map, vertex_to_weight, solution_stack, current_path, dist) are
\* objects they have created themselves, and no statement of theirs assigns
\* to an attribute of the graph or of a vertex.
AlgorithmCall(g, out) == [graph |-> g, out |-> out]

AddVertex ==
    /\ nops < MaxOps
    /\ \E vertex_id \in Ids :
          /\ graph' = add_vertex(graph, vertex_id)
          /\ last' = Call("add_vertex", <<vertex_id>>, Return(Len(graph.objs) + 1))
    /\ nops' = nops + 1
    /\ UNCHANGED <<heap, items>>

AddEdge ==
    /\ nops < MaxOps
    /\ \E vertex_id1 \in Ids, vertex_id2 \in Ids,
          weight \in IF graph.cls = "Graph" THEN {1} ELSE EdgeWeights :
          LET r == add_edge(graph, vertex_id1, vertex_id2, weight)
          IN  /\ graph' = r.graph
              /\ last' = Call("add_edge", <<vertex_id1, vertex_id2, weight>>, r.out)
    /\ nops' = nops + 1
    /\ UNCHANGED <<heap, items>>

FindShortestPath ==
    /\ nops < MaxOps
    /\ \E start_id \in ArgIds, target_id \in ArgIds :
          last' = Call("find_shortest_path", <<start_id, target_id>>,
                       IF graph.cls = "Graph"
                       THEN Graph_find_shortest_path(graph, start_id, target_id)
                       ELSE WeightedGraph_find_shortest_path(graph, start_id, target_id))
    /\ nops' = nops + 1
    /\ graph' = AlgorithmCall(graph, last'.out).graph
    /\ UNCHANGED <<heap, items>>

ContainsCycle ==
    /\ nops < MaxOps
    /\ last' = Call("contains_cycle", <<>>, GraphMethod(contains_cycle(graph)))
    /\ nops' = nops + 1
    /\ graph' = AlgorithmCall(graph, last'.out).graph
    /\ UNCHANGED <<heap, items>>

IsBipartite ==
    /\ nops < MaxOps
    /\ last' = Call("is_bipartite", <<>>, GraphMethod(is_bipartite(graph)))
    /\ nops' = nops + 1
    /\ graph' = AlgorithmCall(graph, last'.out).graph
    /\ UNCHANGED <<heap, items>>

TopologicalSort ==
    /\ nops < MaxOps
    /\ last' = Call("topological_sort", <<>>, GraphMethod(topological_sort(graph)))
    /\ nops' = nops + 1
    /\ graph' = AlgorithmCall(graph, last'.out).graph
    /\ UNCHANGED <<heap, items>>

GreedyColoring ==
    /\ nops < MaxOps
    /\ last' = Call("greedy_coloring", <<>>, GraphMethod(greedy_coloring(graph)))
    /\ nops' = nops + 1
    /\ graph' = AlgorithmCall(graph, last'.out).graph
    /\ UNCHANGED <<heap, items>>

BfsTraversal ==
    /\ nops < MaxOps
    /\ \E start_id \in ArgIds :
          last' = Call("bfs_traversal", <<start_id>>,
                       GraphMethod(bfs_traversal(graph, start_id)))
    /\ nops' = nops + 1
    /\ graph' = AlgorithmCall(graph, last'.out).graph
    /\ UNCHANGED <<heap, items>>

\* the distances find_vertices_n_away is called with
MaxDistance == 2

FindVerticesNAway ==
    /\ nops < MaxOps
    /\ \E start_id \in ArgIds, target_distance \in 0..MaxDistance :
          last' = Call("find_vertices_n_away", <<start_id, target_distance>>,
                       GraphMethod(find_vertices_n_away(graph, start_id, target_distance)))
    /\ nops' = nops + 1
    /\ graph' = AlgorithmCall(graph, last'.out).graph
    /\ UNCHANGED <<heap, items>>

FindConnectedComponents ==
    /\ nops < MaxOps
    /\ last' = Call("find_connected_components", <<>>,
                    GraphMethod(find_connected_components(graph)))
    /\ nops' = nops + 1
    /\ graph' = AlgorithmCall(graph, last'.out).graph
    /\ UNCHANGED <<heap, items>>

Kruskal ==
    /\ nops < MaxOps
    /\ last' = Call("minimum_spanning_tree_kruskal", <<>>,
                    WeightedGraphMethod(minimum_spanning_tree_kruskal(graph)))
    /\ nops' = nops + 1
    /\ graph' = AlgorithmCall(graph, last'.out).graph
    /\ UNCHANGED <<heap, items>>

Prim ==
    /\ nops < MaxOps
    /\ last' = Call("minimum_spanning_tree_prim", <<>>,
                    WeightedGraphMethod(minimum_spanning_tree_prim(graph)))
    /\ nops' = nops + 1
    /\ graph' = AlgorithmCall(graph, last'.out).graph
    /\ UNCHANGED <<heap, items>>

FloydWarshall ==
    /\ nops < MaxOps
    /\ last' = Call("floyd_warshall", <<>>, WeightedGraphMethod(floyd_warshall(graph)))
    /\ nops' = nops + 1
    /\ graph' = AlgorithmCall(graph, last'.out).graph
    /\ UNCHANGED <<heap, items>>

\* the items a caller inserts
MaxItem == 3

HeapItems == 1..MaxItem

Insert ==
    /\ nops < MaxOps
    /\ \E item \in HeapItems :
          /\ heap' = insert(heap, item)
          /\ last' = Call("insert", <<item>>, ReturnNone)
    /\ nops' = nops + 1
    /\ UNCHANGED <<graph, items>>

GetMin ==
    /\ nops < MaxOps
    /\ last' = Call("get_min", <<>>, get_min(heap))
    /\ nops' = nops + 1
    /\ UNCHANGED <<graph, heap, items>>

DeleteMin ==
    /\ nops < MaxOps
    /\ heap' = delete_min(heap).items
    /\ last' = Call("delete_min", <<>>, delete_min(heap).out)
    /\ nops' = nops + 1
    /\ UNCHANGED <<graph, items>>

ReplaceMin ==
    /\ nops < MaxOps
    /\ \E item \in HeapItems :
          /\ heap' = replace_min(heap, item).items
          /\ last' = Call("replace_min", <<item>>, replace_min(heap, item).out)
    /\ nops' = nops + 1
    /\ UNCHANGED <<graph, items>>

HeapSort ==
    /\ nops < MaxOps
    /\ items' = heap_sort(items).items
    /\ last' = Call("heap_sort", <<items>>, heap_sort(items).out)
    /\ nops' = nops + 1
    /\ UNCHANGED <<graph, heap>>

Next ==
    \/ AddVertex
    \/ AddEdge
    \/ FindShortestPath
    \/ ContainsCycle
    \/ IsBipartite
    \/ TopologicalSort
    \/ GreedyColoring
    \/ BfsTraversal
    \/ FindVerticesNAway
    \/ FindConnectedComponents
    \/ Kruskal
    \/ Prim
    \/ FloydWarshall
    \/ Insert
    \/ GetMin
    \/ DeleteMin
    \/ ReplaceMin

Spec == Init /\ [][Next]_vars

\* ------------------------------------------------- the heap's callers
\* the lists a caller builds a heap from, or sorts: up to MaxListLen items
MaxListLen == 4

\* calls explored on a heap built from a list
HeapOps == 2

Lists == UNION {[1..n -> HeapItems] : n \in 0..MaxListLen}

\* items of test_binary_min_heap
test_items == <<9, 25, 86, 3, 29, 5, 55>>

\* BinaryMinHeap(items) for a list of the caller (BinaryMinHeap() when the
\* list is empty) or for the list of test_binary_min_heap; HeapOps calls are
\* explored on it
HeapInit ==
    /\ graph = NewGraph("Graph", TRUE)
    /\ last = Call("__init__", <<>>, ReturnNone)
    /\ items \in Lists \cup {test_items}
    /\ nops = MaxOps - HeapOps
    /\ heap = BinaryMinHeap(items)

HeapNext ==
    \/ Insert
    \/ GetMin
    \/ DeleteMin
    \/ ReplaceMin
    \/ HeapSort

HeapSpec == HeapInit /\ [][HeapNext]_vars

\* ------------------------------------------------- what the graph denotes
\* The graph a Graph / WeightedGraph object stands for: its vertices are the
\* keys of vertex_dict, and u -> v is an edge when v is a key of the
\* adjacency of the object registered under u.
VertexIds(g) == Range(Keys(g.vertex_dict))

Adjacency(g, u) == g.objs[Get(g.vertex_dict, u)].neighbors_dict

HasEdge(g, u, v) == Has(Adjacency(g, u), v)

EdgeWeight(g, u, v) == Get(Adjacency(g, u), v)[2]

\* the vertices a path of zero or more edges leads to from a vertex of seen
RECURSIVE ReachableFrom(_, _)
ReachableFrom(g, seen) ==
    LET next == seen \cup {v \in VertexIds(g) : \E u \in seen : HasEdge(g, u, v)}
    IN  IF next = seen THEN seen ELSE ReachableFrom(g, next)

Reachable(g, s, t) == t \in ReachableFrom(g, {s})

HasCycle(g) ==
    \E u \in VertexIds(g), v \in VertexIds(g) : HasEdge(g, u, v) /\ Reachable(g, v, u)

\* an undirected graph: not directed, and every adjacency entry has its
\* mirror entry, with the same weight
IsUndirected(g) ==
    /\ ~g.is_directed
    /\ \A u \in VertexIds(g), v \in VertexIds(g) :
          HasEdge(g, u, v) =>
             HasEdge(g, v, u) /\ EdgeWeight(g, v, u) = EdgeWeight(g, u, v)

\* no adjacency entry of any vertex object has a negative weight
NonNegative(g) ==
    \A i \in 1..Len(g.objs) :
        \A k \in 1..Len(g.objs[i].neighbors_dict) : g.objs[i].neighbors_dict[k][2][2] >= 0

HasSelfLoop(g) == \E u \in VertexIds(g) : HasEdge(g, u, u)

Connected(g) ==
    /\ VertexIds(g) # {}
    /\ \A u \in VertexIds(g) : ReachableFrom(g, {u}) = VertexIds(g)

Min(S) == CHOOSE m \in S : \A x \in S : m <= x

\* the least total weight of a simple path from s to t that avoids the
\* vertices of avoid after s; Inf when there is none
RECURSIVE MinPathWeight(_, _, _, _)
MinPathWeight(g, s, t, avoid) ==
    IF s = t THEN 0
    ELSE Min({Inf} \cup
             { Plus(EdgeWeight(g, s, n), MinPathWeight(g, n, t, avoid \cup {n})) :
                 n \in {m \in VertexIds(g) \ avoid : HasEdge(g, s, m)} })

ShortestDistance(g, s, t) == MinPathWeight(g, s, t, {s})

\* the edges of an undirected graph, each once, as <<u, v, weight>>, u < v
UndirectedEdges(g) ==
    { <<p[1], p[2], EdgeWeight(g, p[1], p[2])>> :
        p \in {q \in VertexIds(g) \X VertexIds(g) :
                  IdOrd(q[1]) < IdOrd(q[2]) /\ HasEdge(g, q[1], q[2])} }

Normal(e) == IF IdOrd(e[1]) < IdOrd(e[2]) THEN e ELSE <<e[2], e[1], e[3]>>

RECURSIVE TotalWeight(_)
TotalWeight(T) ==
    IF T = {} THEN 0
    ELSE LET e == CHOOSE x \in T : TRUE IN e[3] + TotalWeight(T \ {e})

RECURSIVE SeqWeight(_)
SeqWeight(es) == IF es = <<>> THEN 0 ELSE Head(es)[3] + SeqWeight(Tail(es))

\* the vertices the edges of T join to a vertex of seen
RECURSIVE JoinedBy(_, _)
JoinedBy(T, seen) ==
    LET next == seen \cup {e[1] : e \in {x \in T : x[2] \in seen}}
                     \cup {e[2] : e \in {x \in T : x[1] \in seen}}
    IN  IF next = seen THEN seen ELSE JoinedBy(T, next)

\* |V| - 1 edges that join all vertices: an acyclic spanning set
IsSpanningTree(g, T) ==
    /\ T \subseteq UndirectedEdges(g)
    /\ Cardinality(T) = Cardinality(VertexIds(g)) - 1
    /\ \A u \in VertexIds(g) : JoinedBy(T, {u}) = VertexIds(g)

MinSpanningWeight(g) ==
    Min({TotalWeight(T) : T \in {X \in SUBSET UndirectedEdges(g) : IsSpanningTree(g, X)}})

\* connected components of an undirected graph
NumComponents(g) ==
    Cardinality({ReachableFrom(g, {u}) : u \in VertexIds(g)})

IsForest(g) ==
    /\ ~HasSelfLoop(g)
    /\ Cardinality(UndirectedEdges(g)) = Cardinality(VertexIds(g)) - NumComponents(g)

TwoColourable(g) ==
    \E colour \in [VertexIds(g) -> {0, 1}] :
        \A u \in VertexIds(g), v \in VertexIds(g) :
            HasEdge(g, u, v) => colour[u] # colour[v]

\* p is a path of the graph from s to t
IsPath(g, p, s, t) ==
    /\ Len(p) >= 1
    /\ p[1] = s
    /\ p[Len(p)] = t
    /\ \A i \in 1..(Len(p) - 1) : HasEdge(g, p[i], p[i + 1])

\* order is a topological order of the graph
IsTopologicalOrder(g, order) ==
    /\ Len(order) = Cardinality(VertexIds(g))
    /\ Range(order) = VertexIds(g)
    /\ \A i \in 1..Len(order), j \in 1..Len(order) :
          HasEdge(g, order[i], order[j]) => i < j

\* expected_mst of test_mst_kruskal
expected_mst ==
    << <<"A", "B", 4>>, <<"A", "C", 8>>, <<"C", "E", 4>>, <<"C", "F", 1>>,
       <<"D", "E", 2>>, <<"D", "G", 7>>, <<"F", "H", 2>>, <<"G", "J", 9>> >>

\* expected_mst_weight of test_mst_prim
expected_mst_weight == 37

\* expected_shortest_path of test_shortest_path
expected_shortest_path == 21

\* ----------------------------------------------------------------- claims
\* C1: on every connected undirected weighted graph without self-loops,
\* minimum_spanning_tree_kruskal returns |V|-1 edges that form an acyclic
\* spanning tree of minimum total weight; on the A..J fixture it returns
\* expected_mst.
C1_KruskalReturnsMinimumSpanningTree ==
    (/\ last.op = "minimum_spanning_tree_kruskal"
     /\ graph.cls = "WeightedGraph"
     /\ IsUndirected(graph) /\ ~HasSelfLoop(graph) /\ Connected(graph))
    => /\ Returned(last.out)
       /\ graph = make_large_graph => last.out.value = expected_mst
       /\ IsSpanningTree(graph, {Normal(e) : e \in Range(last.out.value)})
       /\ SeqWeight(last.out.value) = MinSpanningWeight(graph)

\* C2: on every connected undirected weighted graph,
\* minimum_spanning_tree_prim returns the total weight of a minimum spanning
\* tree, the sum of the weights of the edges Kruskal returns on the same
\* graph; 37 on the A..J fixture.
C2_PrimReturnsMinimumWeight ==
    (/\ last.op = "minimum_spanning_tree_prim"
     /\ graph.cls = "WeightedGraph"
     /\ IsUndirected(graph) /\ Connected(graph))
    => /\ Returned(last.out)
       /\ graph = make_large_graph => last.out.value = expected_mst_weight
       /\ last.out.value = MinSpanningWeight(graph)
       /\ Returned(minimum_spanning_tree_kruskal(graph)) =>
             last.out.value = SeqWeight(minimum_spanning_tree_kruskal(graph).value)

\* C3: on every weighted graph (weights >= 0), for start and target with
\* target reachable from start, WeightedGraph.find_shortest_path returns the
\* least total weight of a simple path from start to target; 21 from A to J
\* on the A..J fixture, 0 when start = target.
C3_DijkstraReturnsShortestDistance ==
    (/\ last.op = "find_shortest_path"
     /\ graph.cls = "WeightedGraph"
     /\ NonNegative(graph)
     /\ last.args[1] \in VertexIds(graph) /\ last.args[2] \in VertexIds(graph)
     /\ Reachable(graph, last.args[1], last.args[2]))
    => /\ Returned(last.out)
       /\ (graph = make_large_graph /\ last.args = <<"A", "J">>) =>
             last.out.value = expected_shortest_path
       /\ last.args[1] = last.args[2] => last.out.value = 0
       /\ last.out.value = ShortestDistance(graph, last.args[1], last.args[2])

\* C4: floyd_warshall returns dist over all vertex ids with dist[i][i] = 0
\* and, for i # j, dist[i][j] the least total weight of a path from i to j
\* (infinity only when there is none); the matrix of an undirected graph is
\* symmetric.
C4_FloydWarshallReturnsAllDistances ==
    (/\ last.op = "floyd_warshall"
     /\ graph.cls = "WeightedGraph")
    => /\ Returned(last.out)
       /\ DOMAIN last.out.value = VertexIds(graph)
       /\ \A i \in VertexIds(graph) :
             /\ DOMAIN last.out.value[i] = VertexIds(graph)
             /\ last.out.value[i][i] = 0
             /\ \A j \in VertexIds(graph) \ {i} :
                   last.out.value[i][j] = ShortestDistance(graph, i, j)
       /\ IsUndirected(graph) =>
             \A i \in VertexIds(graph), j \in VertexIds(graph) :
                 last.out.value[i][j] = last.out.value[j][i]

\* C5: on every unweighted graph, for start and target in it,
\* Graph.find_shortest_path returns a path from start to target with the
\* least number of edges, and returns None exactly when target is not
\* reachable from start.
C5_ShortestPathHasFewestEdges ==
    (/\ last.op = "find_shortest_path"
     /\ graph.cls = "Graph"
     /\ last.args[1] \in VertexIds(graph) /\ last.args[2] \in VertexIds(graph))
    => /\ last.out.raised = ""
       /\ last.out.is_none <=> ~Reachable(graph, last.args[1], last.args[2])
       /\ ~last.out.is_none =>
             /\ IsPath(graph, last.out.value, last.args[1], last.args[2])
             /\ Len(last.out.value) - 1
                   = ShortestDistance(graph, last.args[1], last.args[2])

\* C6: on every directed graph, contains_cycle returns True if and only if
\* the graph has a directed cycle.
C6_ContainsCycleIffDirectedCycle ==
    (/\ last.op = "contains_cycle"
     /\ graph.cls = "Graph"
     /\ graph.is_directed)
    => /\ Returned(last.out)
       /\ last.out.value <=> HasCycle(graph)

\* C7: on every undirected graph that is a forest with at least one edge,
\* contains_cycle returns False.
C7_ContainsCycleFalseOnForest ==
    (/\ last.op = "contains_cycle"
     /\ graph.cls = "Graph"
     /\ IsUndirected(graph) /\ IsForest(graph) /\ UndirectedEdges(graph) # {})
    => /\ Returned(last.out)
       /\ last.out.value = FALSE

\* C8: on every non-empty undirected graph, connected or not, is_bipartite
\* returns True if and only if every connected component is 2-colourable.
C8_IsBipartiteIffTwoColourable ==
    (/\ last.op = "is_bipartite"
     /\ graph.cls = "Graph"
     /\ IsUndirected(graph) /\ VertexIds(graph) # {})
    => /\ Returned(last.out)
       /\ last.out.value <=> TwoColourable(graph)

\* C9: topological_sort on a directed graph that contains a cycle fails with
\* a CycleError and never returns an ordering.
C9_TopologicalSortRejectsCycle ==
    (/\ last.op = "topological_sort"
     /\ graph.cls = "Graph"
     /\ graph.is_directed /\ HasCycle(graph))
    => last.out.raised = "CycleError"

\* C10: on every directed acyclic graph, topological_sort returns a list
\* that contains every vertex id exactly once and in which u comes before v
\* for every edge u -> v.
C10_TopologicalSortOrdersDag ==
    (/\ last.op = "topological_sort"
     /\ graph.cls = "Graph"
     /\ graph.is_directed /\ ~HasCycle(graph))
    => /\ Returned(last.out)
       /\ IsTopologicalOrder(graph, last.out.value)

\* the smallest non-negative colour that is not in used
SmallestFree(used) ==
    CHOOSE c \in 0..Cardinality(used) : c \notin used /\ \A d \in 0..(c - 1) : d \in used

\* C11: greedy_coloring colours the vertices in construction order and gives
\* each vertex the smallest non-negative colour that none of its neighbours
\* coloured before it has (the first vertex gets 0; without edges all get 0).
C11_GreedyColoringSmallestFreeColour ==
    (/\ last.op = "greedy_coloring"
     /\ graph.cls = "Graph")
    => /\ Returned(last.out)
       /\ Keys(last.out.value) = Keys(graph.vertex_dict)
       /\ \A i \in 1..Len(last.out.value) :
             last.out.value[i][2] =
                SmallestFree({last.out.value[j][2] :
                                j \in {k \in 1..(i - 1) :
                                         HasEdge(graph, last.out.value[i][1],
                                                 last.out.value[k][1])}})

\* C12: add_vertex(id) with an id that is already in the graph fails with
\* DuplicateVertex and leaves the graph unchanged: the Vertex object
\* registered under the id, its adjacency and every reference to it are kept.
C12_AddVertexRejectsDuplicate ==
    [][(/\ last'.op = "add_vertex"
        /\ contains_id(graph, last'.args[1]))
       => /\ last'.out.raised = "DuplicateVertex"
          /\ graph' = graph]_vars

\* C13: a call that fails leaves the structure exactly as it was: add_edge
\* with an absent endpoint raises an error and inserts no adjacency entry in
\* either direction, and get_min, delete_min and replace_min on an empty
\* BinaryMinHeap raise an error and leave the heap empty.
C13_FailedCallChangesNothing ==
    [][/\ last'.out.raised # "" =>
             graph' = graph /\ heap' = heap /\ items' = items
       /\ (/\ last'.op = "add_edge"
           /\ \/ ~contains_id(graph, last'.args[1])
              \/ ~contains_id(graph, last'.args[2]))
          => last'.out.raised # "" /\ graph' = graph
       /\ (/\ last'.op \in {"get_min", "delete_min", "replace_min"}
           /\ heap = <<>>)
          => last'.out.raised # "" /\ heap' = <<>>]_vars

\* add_edge has failed on an undirected graph that has the first endpoint,
\* with neighbours, and not the second
C13_Witness ==
    /\ last.op = "add_edge"
    /\ last.out.raised # ""
    /\ ~graph.is_directed
    /\ contains_id(graph, last.args[1])
    /\ ~contains_id(graph, last.args[2])
    /\ Adjacency(graph, last.args[1]) # <<>>

\* C14: after any sequence of add_vertex and add_edge calls on an undirected
\* graph, adjacency is symmetric: for all vertices u and v in the graph, v is
\* in u's adjacency if and only if u is in v's, and in a WeightedGraph both
\* entries carry the same weight.
C14_UndirectedAdjacencyIsSymmetric ==
    ~graph.is_directed =>
        \A u \in VertexIds(graph), v \in VertexIds(graph) :
            /\ HasEdge(graph, u, v) <=> HasEdge(graph, v, u)
            /\ HasEdge(graph, u, v) =>
                  EdgeWeight(graph, u, v) = EdgeWeight(graph, v, u)

\* C15: on every disconnected weighted graph (two or more vertices, no
\* spanning tree), minimum_spanning_tree_kruskal ends with a
\* DisconnectedGraph error: it neither runs forever nor returns edges.
C15_KruskalRejectsDisconnected ==
    (/\ last.op = "minimum_spanning_tree_kruskal"
     /\ graph.cls = "WeightedGraph"
     /\ IsUndirected(graph)
     /\ Cardinality(VertexIds(graph)) >= 2
     /\ ~Connected(graph))
    => last.out.raised = "DisconnectedGraph"

\* C16: on every disconnected weighted graph, minimum_spanning_tree_prim
\* reports an error and never returns a number.
C16_PrimRejectsDisconnected ==
    (/\ last.op = "minimum_spanning_tree_prim"
     /\ graph.cls = "WeightedGraph"
     /\ IsUndirected(graph)
     /\ Cardinality(VertexIds(graph)) >= 2
     /\ ~Connected(graph))
    => /\ last.out.raised # ""
       /\ last.out.raised # Diverges.raised

\* C17: WeightedGraph.find_shortest_path on a graph that has an edge of
\* negative weight fails with InvalidEdgeWeight instead of returning a
\* distance.
C17_DijkstraRejectsNegativeWeight ==
    (/\ last.op = "find_shortest_path"
     /\ graph.cls = "WeightedGraph"
     /\ ~NonNegative(graph))
    => last.out.raised = "InvalidEdgeWeight"

\* C18: on every weighted graph, for start and target in it with target not
\* reachable from start, WeightedGraph.find_shortest_path returns None,
\* never infinity or any other number.
C18_DijkstraUnreachableIsNone ==
    (/\ last.op = "find_shortest_path"
     /\ graph.cls = "WeightedGraph"
     /\ last.args[1] \in VertexIds(graph) /\ last.args[2] \in VertexIds(graph)
     /\ ~Reachable(graph, last.args[1], last.args[2]))
    => last.out = ReturnNone

\* every item is greater than or equal to the item at its parent index
HeapOrdered(heap_items) ==
    \A index \in 1..(Len(heap_items) - 1) :
        heap_items[index + 1] >= heap_items[_parent_index(index) + 1]

\* C19: after any sequence of insert, delete_min and replace_min calls on a
\* BinaryMinHeap, empty at first or built from a list, every item at an
\* index i > 0 is greater than or equal to the item at index (i-1) div 2, so
\* get_min returns the smallest item the heap holds.
C19_HeapOrderIsInvariant ==
    /\ HeapOrdered(heap)
    /\ (last.op = "get_min" /\ heap # <<>>) =>
          last.out = Return(Min(Range(heap)))

\* delete_min has moved the last item to the root of a heap that still has
\* five or more items, of three or more different values
C19_Witness ==
    /\ last.op = "delete_min"
    /\ Len(heap) >= 5
    /\ Cardinality(Range(heap)) >= 3

\* how often x occurs in the list s
Count(s, x) == Cardinality({i \in 1..Len(s) : s[i] = x})

\* t is the list s in ascending order
IsSortedPermutation(s, t) ==
    /\ Len(t) = Len(s)
    /\ \A x \in Range(s) \cup Range(t) : Count(t, x) = Count(s, x)
    /\ \A i \in 1..(Len(t) - 1) : t[i] <= t[i + 1]

\* the sorted list test_binary_min_heap deletes its items in
sorted_test_items == <<3, 5, 9, 25, 29, 55, 86>>

\* C20: heap_sort turns any finite list into its ascending permutation
\* ([9,25,86,3,29,5,55] into [3,5,9,25,29,55,86]); an empty list and a
\* singleton stay as they are.
C20_HeapSortSorts ==
    last.op = "heap_sort" =>
        /\ last.out = ReturnNone
        /\ IsSortedPermutation(last.args[1], items)
        /\ last.args[1] = test_items => items = sorted_test_items
        /\ Len(last.args[1]) <= 1 => items = last.args[1]

\* heap_sort has reordered a list of four or more items
C20_Witness ==
    /\ last.op = "heap_sort"
    /\ Len(items) >= 4
    /\ items # last.args[1]

\* the number of edges of a shortest path from s to t in an unweighted graph
Hops(g, s, t) == ShortestDistance(g, s, t)

\* the list has no item twice
NoDuplicates(s) == \A i \in 1..Len(s), j \in 1..Len(s) : s[i] = s[j] => i = j

\* C21: for every graph and every start id present in it, bfs_traversal
\* processes each vertex reachable from start exactly once and no
\* unreachable vertex, in FIFO discovery order (no vertex before one that is
\* nearer to start), and terminates also on cyclic graphs; with an absent
\* start id it fails with an error before processing anything.
C21_BfsProcessesReachableOnce ==
    (last.op = "bfs_traversal" /\ graph.cls = "Graph")
    => IF last.args[1] \in VertexIds(graph)
       THEN /\ last.out = [ReturnNone EXCEPT !.value = last.out.value]
            /\ NoDuplicates(last.out.value)
            /\ Range(last.out.value) = ReachableFrom(graph, {last.args[1]})
            /\ \A i \in 1..Len(last.out.value), j \in 1..Len(last.out.value) :
                  i < j => Hops(graph, last.args[1], last.out.value[i])
                              <= Hops(graph, last.args[1], last.out.value[j])
       ELSE /\ last.out.raised \notin {"", Diverges.raised}
            /\ last.out.value = <<>>

\* the lists of a list of lists, one after the other
RECURSIVE Flatten(_)
Flatten(ss) == IF ss = <<>> THEN <<>> ELSE Head(ss) \o Flatten(Tail(ss))

\* C22: find_connected_components returns id-lists that partition the vertex
\* set: every vertex id in the graph appears in exactly one list and exactly
\* once, and, for an undirected graph, two ids are in the same list if and
\* only if a path connects them.
C22_ComponentsPartitionVertices ==
    (last.op = "find_connected_components" /\ graph.cls = "Graph")
    => /\ Returned(last.out)
       /\ NoDuplicates(Flatten(last.out.value))
       /\ Range(Flatten(last.out.value)) = VertexIds(graph)
       /\ ~graph.is_directed =>
             \A u \in VertexIds(graph), v \in VertexIds(graph) :
                 (\E k \in 1..Len(last.out.value) :
                     u \in Range(last.out.value[k]) /\ v \in Range(last.out.value[k]))
                 <=> Reachable(graph, u, v)

\* C24: minimum_spanning_tree_kruskal terminates on every connected weighted
\* graph that add_vertex/add_edge can build, graphs with a self-loop edge
\* included: an edge whose endpoints are already in the same group is
\* discarded, so the selection loop never examines the same edge for ever.
C24_KruskalTerminates ==
    (/\ last.op = "minimum_spanning_tree_kruskal"
     /\ graph.cls = "WeightedGraph"
     /\ Connected(graph))
    => last.out # Diverges

\* the algorithm methods
Algorithms ==
    {"bfs_traversal", "find_shortest_path", "find_vertices_n_away", "is_bipartite",
     "find_connected_components", "contains_cycle", "topological_sort",
     "greedy_coloring", "minimum_spanning_tree_kruskal",
     "minimum_spanning_tree_prim", "floyd_warshall"}

=============================================================================
